---- MODULE Spec2Model ----
(***************************************************************************)
(* Model of the text signing core of rcli: src/process/text.rs (the         *)
(* capability implementations and the three orchestration functions),       *)
(* src/utils.rs (get_reader) and the generate command of src/cli/text.rs.   *)
(*                                                                          *)
(* Byte strings are sequences over 0..255 and keep their real lengths (32   *)
(* byte keys, 32 and 64 byte signatures).  Text is a sequence of code       *)
(* points.  blake3::keyed_hash is computed as the crate computes it.  The   *)
(* ed25519_dalek operations are tabulated: the public keys and signatures   *)
(* of the seeds and messages used here are the values the library gives     *)
(* (see the section "ed25519_dalek").  Everything the repository itself     *)
(* does around them (slicing, length conversion, comparison, error          *)
(* propagation, step order, encoding, file writes) is translated from the   *)
(* source.                                                                  *)
(***************************************************************************)
EXTENDS Integers, Sequences, FiniteSets, TLC

(***************************************************************************)
(* Rust results.  A call ends in Ok(value), in Err(error) or in a panic.    *)
(***************************************************************************)
Ok(v) == [tag |-> "Ok", val |-> v]
Err(e) == [tag |-> "Err", err |-> e]
Panic(e) == [tag |-> "Panic", err |-> e]
None == [tag |-> "None"]

IsOk(r) == r.tag = "Ok"
IsErr(r) == r.tag = "Err"

(***************************************************************************)
(* Byte helpers.                                                            *)
(***************************************************************************)
KEY_LEN == 32

Zeros(n) == [i \in 1..n |-> 0]

Min(a, b) == IF a < b THEN a ELSE b

\* the byte b with bit k (0 = least significant) inverted
FlipBitOfByte(b, k) ==
    IF (b \div (2 ^ k)) % 2 = 1 THEN b - (2 ^ k) ELSE b + (2 ^ k)

\* the byte string s with bit number n inverted, bits numbered from 0,
\* eight per byte
FlipBit(s, n) ==
    [i \in 1..Len(s) |->
        IF i = (n \div 8) + 1 THEN FlipBitOfByte(s[i], n % 8) ELSE s[i]]

(***************************************************************************)
(* Text: str::trim and the URL_SAFE_NO_PAD base64 engine.                   *)
(***************************************************************************)
\* char::is_whitespace: the Unicode White_Space code points
is_whitespace(c) ==
    \/ c \in 9..13
    \/ c \in {32, 133, 160, 5760, 8232, 8233, 8239, 8287, 12288}
    \/ c \in 8192..8202

RECURSIVE trim_start(_)
trim_start(s) ==
    IF s # <<>> /\ is_whitespace(Head(s)) THEN trim_start(Tail(s)) ELSE s

RECURSIVE trim_end(_)
trim_end(s) ==
    IF s # <<>> /\ is_whitespace(s[Len(s)])
    THEN trim_end(SubSeq(s, 1, Len(s) - 1))
    ELSE s

\* str::trim
trim(s) == trim_end(trim_start(s))

\* the URL-safe alphabet: A-Z a-z 0-9 - _
B64Symbol(v) ==
    IF v < 26 THEN 65 + v
    ELSE IF v < 52 THEN 97 + (v - 26)
    ELSE IF v < 62 THEN 48 + (v - 52)
    ELSE IF v = 62 THEN 45
    ELSE 95

\* the 6-bit value of a symbol, or -1 when the code point is outside the
\* alphabet (the padding character '=' included)
B64Value(c) ==
    IF c \in 65..90 THEN c - 65
    ELSE IF c \in 97..122 THEN c - 97 + 26
    ELSE IF c \in 48..57 THEN c - 48 + 52
    ELSE IF c = 45 THEN 62
    ELSE IF c = 95 THEN 63
    ELSE -1

\* Engine::encode without padding
RECURSIVE b64_encode(_)
b64_encode(b) ==
    IF Len(b) = 0 THEN <<>>
    ELSE IF Len(b) = 1 THEN
        << B64Symbol(b[1] \div 4), B64Symbol((b[1] % 4) * 16) >>
    ELSE IF Len(b) = 2 THEN
        << B64Symbol(b[1] \div 4),
           B64Symbol((b[1] % 4) * 16 + b[2] \div 16),
           B64Symbol((b[2] % 16) * 4) >>
    ELSE
        << B64Symbol(b[1] \div 4),
           B64Symbol((b[1] % 4) * 16 + b[2] \div 16),
           B64Symbol((b[2] % 16) * 4 + b[3] \div 64),
           B64Symbol(b[3] % 64) >> \o b64_encode(SubSeq(b, 4, Len(b)))

\* the bytes of a text whose symbols are all valid and whose length and
\* trailing bits have been checked
RECURSIVE b64_bytes(_)
b64_bytes(t) ==
    IF Len(t) < 2 THEN <<>>
    ELSE IF Len(t) = 2 THEN
        << B64Value(t[1]) * 4 + B64Value(t[2]) \div 16 >>
    ELSE IF Len(t) = 3 THEN
        << B64Value(t[1]) * 4 + B64Value(t[2]) \div 16,
           (B64Value(t[2]) % 16) * 16 + B64Value(t[3]) \div 4 >>
    ELSE
        << B64Value(t[1]) * 4 + B64Value(t[2]) \div 16,
           (B64Value(t[2]) % 16) * 16 + B64Value(t[3]) \div 4,
           (B64Value(t[3]) % 4) * 64 + B64Value(t[4]) >>
        \o b64_bytes(SubSeq(t, 5, Len(t)))

\* Engine::decode of URL_SAFE_NO_PAD: no padding accepted, no symbol outside
\* the alphabet, no length of 1 modulo 4, no non-zero trailing bits
b64_decode(t) ==
    IF \E i \in 1..Len(t) : B64Value(t[i]) = -1 THEN Err("decode")
    ELSE IF Len(t) % 4 = 1 THEN Err("decode")
    ELSE IF Len(t) % 4 = 2 /\ B64Value(t[Len(t)]) % 16 # 0 THEN Err("decode")
    ELSE IF Len(t) % 4 = 3 /\ B64Value(t[Len(t)]) % 4 # 0 THEN Err("decode")
    ELSE Ok(b64_bytes(t))

(***************************************************************************)
(* blake3::keyed_hash, the function of the blake3 crate.                    *)
(*                                                                          *)
(* A 32 bit word is the pair << high half, low half >> of 16 bit numbers,   *)
(* so that no intermediate value leaves the range of the integers used      *)
(* here.  The input is cut into chunks of 1024 bytes and each chunk into    *)
(* blocks of 64 bytes; the chunks' chaining values are joined pairwise in   *)
(* a binary tree whose root gives the digest.                               *)
(***************************************************************************)
\* the exclusive or of two 4 bit numbers
XorNibble ==
    <<
       << 0, 1, 2, 3, 4, 5, 6, 7, 8, 9, 10, 11, 12, 13, 14, 15 >>,
       << 1, 0, 3, 2, 5, 4, 7, 6, 9, 8, 11, 10, 13, 12, 15, 14 >>,
       << 2, 3, 0, 1, 6, 7, 4, 5, 10, 11, 8, 9, 14, 15, 12, 13 >>,
       << 3, 2, 1, 0, 7, 6, 5, 4, 11, 10, 9, 8, 15, 14, 13, 12 >>,
       << 4, 5, 6, 7, 0, 1, 2, 3, 12, 13, 14, 15, 8, 9, 10, 11 >>,
       << 5, 4, 7, 6, 1, 0, 3, 2, 13, 12, 15, 14, 9, 8, 11, 10 >>,
       << 6, 7, 4, 5, 2, 3, 0, 1, 14, 15, 12, 13, 10, 11, 8, 9 >>,
       << 7, 6, 5, 4, 3, 2, 1, 0, 15, 14, 13, 12, 11, 10, 9, 8 >>,
       << 8, 9, 10, 11, 12, 13, 14, 15, 0, 1, 2, 3, 4, 5, 6, 7 >>,
       << 9, 8, 11, 10, 13, 12, 15, 14, 1, 0, 3, 2, 5, 4, 7, 6 >>,
       << 10, 11, 8, 9, 14, 15, 12, 13, 2, 3, 0, 1, 6, 7, 4, 5 >>,
       << 11, 10, 9, 8, 15, 14, 13, 12, 3, 2, 1, 0, 7, 6, 5, 4 >>,
       << 12, 13, 14, 15, 8, 9, 10, 11, 4, 5, 6, 7, 0, 1, 2, 3 >>,
       << 13, 12, 15, 14, 9, 8, 11, 10, 5, 4, 7, 6, 1, 0, 3, 2 >>,
       << 14, 15, 12, 13, 10, 11, 8, 9, 6, 7, 4, 5, 2, 3, 0, 1 >>,
       << 15, 14, 13, 12, 11, 10, 9, 8, 7, 6, 5, 4, 3, 2, 1, 0 >>
    >>

\* the exclusive or of two 16 bit numbers, nibble by nibble
Xor16(a, b) ==
    XorNibble[(a % 16) + 1][(b % 16) + 1]
    + 16 * XorNibble[((a \div 16) % 16) + 1][((b \div 16) % 16) + 1]
    + 256 * XorNibble[((a \div 256) % 16) + 1][((b \div 256) % 16) + 1]
    + 4096 * XorNibble[(a \div 4096) + 1][(b \div 4096) + 1]

\* x ^ y on u32
Xor32(x, y) == << Xor16(x[1], y[1]), Xor16(x[2], y[2]) >>

\* u32::wrapping_add
Add32(x, y) ==
    LET lo == x[2] + y[2]
    IN  << (x[1] + y[1] + lo \div 65536) % 65536, lo % 65536 >>

\* u32::rotate_right(n), 0 < n <= 16
Rotr32(x, n) ==
    IF n = 16 THEN << x[2], x[1] >>
    ELSE << x[1] \div (2 ^ n) + (x[2] % (2 ^ n)) * (2 ^ (16 - n)),
            x[2] \div (2 ^ n) + (x[1] % (2 ^ n)) * (2 ^ (16 - n)) >>

\* u32::from_le_bytes of the four bytes of b from position i
WordOfBytes(b, i) == << b[i + 2] + 256 * b[i + 3], b[i] + 256 * b[i + 1] >>

\* u32::to_le_bytes
BytesOfWord(w) == << w[2] % 256, w[2] \div 256, w[1] % 256, w[1] \div 256 >>

\* the initialisation vector
IV ==
    << << 27145, 58983 >>, << 47975, 44677 >>, << 15470, 62322 >>,
       << 42319, 62778 >>, << 20750, 21119 >>, << 39685, 26764 >>,
       << 8067, 55723 >>, << 23520, 52505 >> >>

MSG_PERMUTATION == << 2, 6, 3, 10, 7, 0, 4, 13, 1, 11, 12, 5, 9, 14, 15, 8 >>

\* the domain separation flags
CHUNK_START == 1
CHUNK_END == 2
PARENT == 4
ROOT == 8
KEYED_HASH == 16

BLOCK_LEN == 64
CHUNK_LEN == 1024

\* The quarter round works on four words q = << a, b, c, d >> of the state.
\* Its eight assignments come in two halves of four; each of the operators
\* below is one assignment.
\* a = a + b + m
g_add(q, m) == << Add32(Add32(q[1], q[2]), m), q[2], q[3], q[4] >>

\* d = (d ^ a).rotate_right(n)
g_rot_d(q, n) == << q[1], q[2], q[3], Rotr32(Xor32(q[4], q[1]), n) >>

\* c = c + d
g_add_c(q) == << q[1], q[2], Add32(q[3], q[4]), q[4] >>

\* b = (b ^ c).rotate_right(n)
g_rot_b(q, n) == << q[1], Rotr32(Xor32(q[2], q[3]), n), q[3], q[4] >>

\* the four assignments of one half, with the message word m and the
\* rotations r1 and r2
g_half(q, m, r1, r2) == g_rot_b(g_add_c(g_rot_d(g_add(q, m), r1)), r2)

\* the state s with the words a, b, c, d (numbered from 0) replaced by q
g_store(s, a, b, c, d, q) ==
    [s EXCEPT ![a + 1] = q[1], ![b + 1] = q[2], ![c + 1] = q[3],
              ![d + 1] = q[4]]

\* the quarter round on the state words a, b, c, d (numbered from 0) with
\* the message words mx and my
g(s, a, b, c, d, mx, my) ==
    g_store(s, a, b, c, d,
            g_half(g_half(<< s[a + 1], s[b + 1], s[c + 1], s[d + 1] >>,
                          mx, 16, 12),
                   my, 8, 7))

\* one round: the four columns, then the four diagonals
round(s, m) ==
    g(g(g(g(g(g(g(g(s, 0, 4, 8, 12, m[1], m[2]),
                  1, 5, 9, 13, m[3], m[4]),
                2, 6, 10, 14, m[5], m[6]),
              3, 7, 11, 15, m[7], m[8]),
            0, 5, 10, 15, m[9], m[10]),
          1, 6, 11, 12, m[11], m[12]),
        2, 7, 8, 13, m[13], m[14]),
      3, 4, 9, 14, m[15], m[16])

\* the message words in the order of the next round
permute(m) ==
    << m[MSG_PERMUTATION[1] + 1], m[MSG_PERMUTATION[2] + 1],
       m[MSG_PERMUTATION[3] + 1], m[MSG_PERMUTATION[4] + 1],
       m[MSG_PERMUTATION[5] + 1], m[MSG_PERMUTATION[6] + 1],
       m[MSG_PERMUTATION[7] + 1], m[MSG_PERMUTATION[8] + 1],
       m[MSG_PERMUTATION[9] + 1], m[MSG_PERMUTATION[10] + 1],
       m[MSG_PERMUTATION[11] + 1], m[MSG_PERMUTATION[12] + 1],
       m[MSG_PERMUTATION[13] + 1], m[MSG_PERMUTATION[14] + 1],
       m[MSG_PERMUTATION[15] + 1], m[MSG_PERMUTATION[16] + 1] >>

\* n rounds, the message words permuted between them (the tests on s and
\* m make each round compute its state before the next begins)
RECURSIVE rounds(_, _, _)
rounds(s, m, n) ==
    IF Len(s) = 0 \/ Len(m) = 0 \/ n = 1 THEN round(s, m)
    ELSE rounds(round(s, m), permute(m), n - 1)

\* the first 8 output words of a compression whose rounds left the state s
feed_forward(s) ==
    << Xor32(s[1], s[9]), Xor32(s[2], s[10]), Xor32(s[3], s[11]),
       Xor32(s[4], s[12]), Xor32(s[5], s[13]), Xor32(s[6], s[14]),
       Xor32(s[7], s[15]), Xor32(s[8], s[16]) >>

\* the compression function, its first 8 output words: the state is the
\* chaining value, half of IV, the 64 bit counter, the block length and
\* the flags
compress(cv, block_words, counter, block_len, flags) ==
    feed_forward(
        rounds(cv \o SubSeq(IV, 1, 4)
                  \o << << counter \div 65536, counter % 65536 >>, << 0, 0 >>,
                        << 0, block_len >>, << 0, flags >> >>,
               block_words, 7))

\* the 16 words of a block of up to 64 bytes, padded with zeros
words_from_block(b) ==
    LET padded == b \o Zeros(BLOCK_LEN - Len(b))
    IN  [i \in 1..16 |-> WordOfBytes(padded, 4 * (i - 1) + 1)]

\* what is left to compress at the end of a node of the tree
Output(cv, block_words, counter, block_len, flags) ==
    [cv |-> cv, block_words |-> block_words, counter |-> counter,
     block_len |-> block_len, flags |-> flags]

\* Output::chaining_value
chaining_value(o) ==
    compress(o.cv, o.block_words, o.counter, o.block_len, o.flags)

\* a chunk of up to 1024 bytes: every block but the last is compressed into
\* the chaining value; i is the number of blocks done (the test on cv makes
\* each step compute its chaining value before the next)
RECURSIVE chunk_output(_, _, _, _, _)
chunk_output(cv, input, counter, flags, i) ==
    LET start == IF i = 0 THEN CHUNK_START ELSE 0
    IN  IF Len(cv) = 0 \/ Len(input) <= BLOCK_LEN
        THEN Output(cv, words_from_block(input), counter, Len(input),
                    flags + start + CHUNK_END)
        ELSE chunk_output(
                compress(cv, words_from_block(SubSeq(input, 1, BLOCK_LEN)),
                         counter, BLOCK_LEN, flags + start),
                SubSeq(input, BLOCK_LEN + 1, Len(input)), counter, flags,
                i + 1)

\* how many chunks go to the left subtree of an input of n bytes: the
\* largest power of two that leaves at least one byte to the right
RECURSIVE left_chunks(_, _)
left_chunks(n, pw) ==
    IF 2 * pw * CHUNK_LEN < n THEN left_chunks(n, 2 * pw) ELSE pw

\* the output of the subtree over input, whose first chunk has the number
\* counter
RECURSIVE node_output(_, _, _, _)
node_output(key_words, input, counter, flags) ==
    IF Len(input) <= CHUNK_LEN
    THEN chunk_output(key_words, input, counter, flags, 0)
    ELSE LET l == left_chunks(Len(input), 1)
             left == node_output(key_words, SubSeq(input, 1, l * CHUNK_LEN),
                                 counter, flags)
             right == node_output(key_words,
                                  SubSeq(input, l * CHUNK_LEN + 1, Len(input)),
                                  counter + l, flags)
         IN  Output(key_words, chaining_value(left) \o chaining_value(right),
                    0, BLOCK_LEN, flags + PARENT)

\* the bytes of the words w, each word least significant byte first
bytes_of_words(w) ==
    [i \in 1..(4 * Len(w)) |->
        BytesOfWord(w[((i - 1) \div 4) + 1])[((i - 1) % 4) + 1]]

\* Output::root_output_bytes, its first 32 bytes: the last compression
\* carries the ROOT flag
root_output_bytes(o) ==
    bytes_of_words(compress(o.cv, o.block_words, o.counter, o.block_len,
                            o.flags + ROOT))

\* the digest of input under the key words
root_hash(key_words, input, flags) ==
    root_output_bytes(node_output(key_words, input, 0, flags))

\* blake3::keyed_hash(&key, &buf).as_bytes(): the key's eight words take
\* the place of the initial chaining value
keyed_hash(key, buf) ==
    root_hash([i \in 1..8 |-> WordOfBytes(key, 4 * (i - 1) + 1)], buf,
              KEYED_HASH)

(***************************************************************************)
(* ed25519_dalek.                                                           *)
(*                                                                          *)
(* The curve arithmetic and SHA-512 of the library are tabulated rather     *)
(* than computed.  Ed25519Keys lists, for each 32 byte seed a signer of     *)
(* this model can hold, the public key the library derives from it;         *)
(* Ed25519Signatures lists the signature the library makes with each of     *)
(* these seeds for each message of this model; KnownPoints lists, for the   *)
(* other 32 byte strings a verifier is loaded from here, whether            *)
(* VerifyingKey::from_bytes finds a curve point in them.  Verification of   *)
(* a 64 byte string under a key and message is the test whether it is the   *)
(* listed signature: on the listed keys and messages the library accepts    *)
(* the listed signature and rejects every one of its single-bit variants,   *)
(* and rejects all of them under every other listed key or point.  The      *)
(* operators are undefined outside the tables.                              *)
(***************************************************************************)
Ed25519Keys ==
    <<
       [seed |->
           << 60, 67, 74, 81, 88, 95, 102, 109, 116, 123, 130, 137, 144,
              151, 158, 165, 172, 179, 186, 193, 200, 207, 214, 221, 228,
              235, 242, 249, 0, 7, 14, 21 >>,
        public |->
           << 63, 78, 75, 255, 106, 155, 125, 220, 245, 174, 71, 105, 160,
              125, 135, 202, 189, 6, 72, 206, 251, 127, 214, 247, 190, 234,
              141, 226, 7, 71, 205, 228 >>],
       [seed |->
           << 113, 120, 127, 134, 141, 148, 155, 162, 169, 176, 183, 190,
              197, 204, 211, 218, 225, 232, 239, 246, 253, 4, 11, 18, 25,
              32, 39, 46, 53, 60, 67, 74 >>,
        public |->
           << 245, 55, 59, 224, 74, 50, 243, 244, 194, 41, 233, 43, 177, 2,
              18, 111, 71, 77, 27, 181, 38, 207, 65, 50, 67, 253, 156, 240,
              129, 33, 103, 153 >>],
       [seed |->
           << 166, 173, 180, 187, 194, 201, 208, 215, 222, 229, 236, 243,
              250, 1, 8, 15, 22, 29, 36, 43, 50, 57, 64, 71, 78, 85, 92,
              99, 106, 113, 120, 127 >>,
        public |->
           << 107, 144, 232, 191, 50, 188, 209, 126, 73, 169, 92, 114, 225,
              221, 25, 180, 189, 75, 64, 41, 144, 66, 29, 107, 178, 113,
              143, 36, 74, 141, 122, 118 >>],
       [seed |->
           << 219, 226, 233, 240, 247, 254, 5, 12, 19, 26, 33, 40, 47, 54,
              61, 68, 75, 82, 89, 96, 103, 110, 117, 124, 131, 138, 145,
              152, 159, 166, 173, 180 >>,
        public |->
           << 127, 150, 255, 135, 21, 229, 41, 67, 161, 96, 252, 240, 109,
              228, 41, 138, 80, 148, 28, 251, 250, 35, 45, 75, 215, 195, 9,
              4, 231, 250, 87, 105 >>],
       [seed |->
           << 98, 51, 36, 70, 103, 56, 33, 67, 100, 53, 94, 72, 97, 50, 35,
              69, 102, 55, 42, 66, 99, 52, 37, 71, 104, 49, 64, 68, 101,
              54, 38, 65 >>,
        public |->
           << 9, 176, 184, 100, 184, 73, 146, 109, 143, 187, 99, 56, 33, 9,
              45, 155, 213, 73, 243, 237, 160, 222, 193, 247, 213, 68, 238,
              24, 154, 121, 94, 179 >>]
    >>

Ed25519Signatures ==
    {
      [signer |-> 1, msg |-> << >>,
       sig |->
           << 189, 226, 215, 26, 87, 87, 8, 182, 44, 93, 214, 178, 137, 75,
              10, 215, 221, 36, 173, 215, 66, 244, 34, 165, 41, 39, 149,
              61, 21, 215, 104, 179, 238, 101, 125, 95, 209, 28, 58, 229,
              21, 64, 139, 147, 42, 207, 143, 180, 6, 151, 221, 83, 108,
              244, 246, 33, 50, 149, 218, 94, 2, 41, 67, 3 >>],
      [signer |-> 1, msg |-> << 104 >>,
       sig |->
           << 176, 247, 159, 116, 168, 97, 35, 200, 20, 99, 132, 67, 166,
              170, 91, 167, 76, 84, 20, 52, 77, 114, 207, 205, 94, 78, 192,
              179, 218, 80, 60, 242, 120, 112, 226, 234, 153, 207, 54, 14,
              157, 209, 58, 233, 151, 1, 43, 182, 57, 174, 115, 131, 66,
              246, 9, 216, 27, 146, 93, 17, 255, 1, 125, 13 >>],
      [signer |-> 1, msg |-> << 104, 101 >>,
       sig |->
           << 189, 153, 162, 34, 55, 6, 135, 187, 190, 111, 182, 133, 207,
              50, 113, 18, 223, 52, 213, 120, 223, 133, 13, 18, 237, 166,
              109, 43, 96, 116, 99, 187, 46, 146, 50, 127, 59, 15, 160,
              251, 1, 207, 43, 8, 180, 108, 251, 211, 209, 49, 254, 151,
              214, 114, 241, 9, 102, 190, 130, 107, 182, 3, 173, 11 >>],
      [signer |-> 1, msg |-> << 104, 101, 108 >>,
       sig |->
           << 226, 190, 52, 238, 34, 3, 118, 171, 19, 176, 107, 188, 191,
              35, 196, 225, 201, 225, 132, 194, 229, 207, 31, 208, 186, 54,
              110, 134, 239, 14, 253, 28, 108, 78, 16, 99, 189, 49, 249,
              51, 56, 88, 221, 127, 63, 149, 240, 203, 51, 190, 227, 215,
              85, 126, 59, 200, 136, 49, 200, 79, 32, 9, 86, 6 >>],
      [signer |-> 1, msg |-> << 104, 101, 108, 108 >>,
       sig |->
           << 107, 54, 121, 68, 156, 107, 166, 249, 216, 96, 190, 23, 33,
              114, 100, 112, 143, 25, 97, 234, 98, 207, 190, 164, 148, 88,
              133, 12, 255, 87, 139, 61, 210, 17, 244, 188, 83, 26, 110,
              229, 80, 127, 236, 117, 1, 17, 219, 60, 156, 77, 84, 128,
              223, 225, 250, 17, 70, 61, 180, 148, 33, 74, 9, 14 >>],
      [signer |-> 1, msg |-> << 104, 101, 108, 108, 111, 32, 119, 111,
                                 114, 108, 100 >>,
       sig |->
           << 174, 239, 178, 68, 6, 176, 222, 92, 64, 101, 101, 103, 44,
              239, 11, 141, 224, 173, 192, 159, 105, 244, 160, 190, 211,
              201, 34, 14, 11, 78, 200, 119, 107, 191, 52, 80, 28, 102,
              176, 56, 105, 67, 203, 203, 121, 212, 26, 68, 78, 62, 225,
              43, 138, 121, 193, 61, 244, 233, 137, 224, 10, 95, 26, 12 >>],
      [signer |-> 2, msg |-> << >>,
       sig |->
           << 236, 234, 34, 79, 68, 64, 217, 252, 71, 230, 205, 29, 248,
              159, 156, 162, 186, 109, 11, 137, 20, 94, 12, 173, 62, 27,
              166, 215, 60, 114, 71, 223, 4, 192, 209, 238, 95, 196, 161,
              70, 23, 212, 204, 108, 90, 60, 236, 251, 37, 179, 1, 108,
              134, 95, 147, 112, 179, 12, 77, 251, 18, 20, 226, 3 >>],
      [signer |-> 2, msg |-> << 104 >>,
       sig |->
           << 105, 197, 104, 86, 45, 132, 216, 158, 171, 54, 246, 128, 155,
              15, 204, 123, 210, 218, 244, 209, 137, 147, 130, 109, 5, 20,
              141, 16, 112, 57, 101, 227, 240, 220, 99, 46, 100, 98, 133,
              79, 196, 208, 48, 112, 179, 11, 254, 12, 11, 78, 132, 167,
              179, 217, 236, 64, 203, 50, 209, 109, 34, 93, 83, 8 >>],
      [signer |-> 2, msg |-> << 104, 101 >>,
       sig |->
           << 199, 6, 1, 12, 189, 64, 76, 16, 114, 175, 160, 243, 22, 152,
              206, 105, 27, 127, 49, 90, 253, 159, 28, 166, 221, 101, 9,
              243, 212, 226, 83, 24, 0, 141, 69, 174, 114, 106, 65, 89, 40,
              26, 194, 218, 185, 36, 49, 113, 167, 33, 221, 80, 219, 13,
              166, 94, 100, 108, 217, 101, 255, 136, 78, 8 >>],
      [signer |-> 2, msg |-> << 104, 101, 108 >>,
       sig |->
           << 238, 187, 76, 251, 220, 226, 146, 231, 166, 96, 26, 195, 73,
              143, 36, 111, 200, 213, 134, 151, 33, 15, 115, 115, 222, 149,
              71, 106, 237, 252, 242, 34, 147, 165, 218, 247, 166, 67, 36,
              184, 35, 232, 75, 19, 217, 137, 181, 176, 219, 253, 206, 199,
              113, 182, 218, 128, 224, 178, 152, 164, 251, 149, 42, 12 >>],
      [signer |-> 2, msg |-> << 104, 101, 108, 108 >>,
       sig |->
           << 69, 14, 129, 125, 197, 95, 197, 48, 131, 175, 49, 87, 253,
              205, 57, 226, 204, 110, 80, 154, 4, 188, 169, 54, 29, 24, 69,
              97, 187, 219, 195, 24, 13, 224, 136, 27, 63, 142, 35, 11, 5,
              72, 81, 120, 222, 253, 201, 252, 54, 153, 59, 178, 38, 129,
              217, 77, 10, 16, 150, 128, 187, 233, 13, 8 >>],
      [signer |-> 2, msg |-> << 104, 101, 108, 108, 111, 32, 119, 111,
                                 114, 108, 100 >>,
       sig |->
           << 33, 17, 92, 137, 8, 74, 132, 86, 1, 228, 78, 134, 47, 213,
              74, 198, 134, 167, 19, 190, 170, 76, 33, 219, 157, 203, 222,
              208, 113, 11, 82, 182, 188, 182, 249, 3, 226, 82, 188, 233,
              219, 161, 183, 81, 143, 74, 225, 189, 27, 76, 5, 220, 56,
              166, 120, 204, 30, 124, 159, 143, 30, 190, 251, 12 >>],
      [signer |-> 3, msg |-> << >>,
       sig |->
           << 190, 40, 241, 184, 197, 9, 222, 1, 73, 235, 105, 169, 51, 70,
              103, 59, 83, 52, 38, 100, 56, 195, 221, 114, 243, 63, 95,
              139, 17, 140, 130, 181, 81, 61, 85, 130, 56, 214, 52, 48,
              148, 198, 250, 122, 223, 222, 82, 4, 4, 84, 95, 210, 223,
              162, 163, 56, 239, 191, 61, 46, 78, 213, 127, 13 >>],
      [signer |-> 3, msg |-> << 104 >>,
       sig |->
           << 104, 136, 140, 247, 250, 84, 183, 175, 183, 70, 87, 119, 118,
              139, 167, 158, 67, 218, 125, 192, 24, 180, 109, 187, 138, 92,
              184, 2, 201, 223, 13, 174, 50, 28, 56, 143, 192, 129, 165,
              37, 167, 155, 177, 202, 80, 142, 79, 243, 168, 135, 99, 25,
              230, 123, 2, 79, 93, 3, 103, 77, 116, 242, 168, 12 >>],
      [signer |-> 3, msg |-> << 104, 101 >>,
       sig |->
           << 215, 75, 116, 72, 243, 220, 54, 8, 218, 248, 61, 111, 135,
              65, 243, 114, 254, 117, 72, 129, 3, 41, 154, 76, 83, 81, 242,
              141, 110, 149, 96, 52, 6, 73, 103, 244, 154, 123, 183, 237,
              54, 29, 196, 134, 155, 47, 42, 132, 57, 240, 183, 86, 196,
              86, 76, 86, 60, 250, 89, 195, 14, 240, 148, 15 >>],
      [signer |-> 3, msg |-> << 104, 101, 108 >>,
       sig |->
           << 205, 50, 68, 51, 104, 25, 244, 231, 219, 193, 183, 133, 102,
              15, 14, 144, 255, 84, 200, 180, 55, 160, 157, 185, 217, 173,
              163, 89, 229, 244, 242, 51, 236, 116, 183, 179, 196, 43, 248,
              1, 136, 57, 202, 51, 206, 125, 247, 12, 189, 180, 208, 115,
              72, 41, 71, 151, 189, 209, 69, 17, 61, 213, 114, 9 >>],
      [signer |-> 3, msg |-> << 104, 101, 108, 108 >>,
       sig |->
           << 206, 103, 210, 57, 233, 150, 79, 79, 145, 87, 89, 232, 219,
              9, 160, 81, 155, 152, 70, 199, 135, 62, 237, 236, 166, 69,
              98, 137, 164, 168, 160, 249, 216, 79, 61, 45, 74, 1, 59, 169,
              188, 123, 177, 15, 20, 26, 187, 115, 27, 156, 240, 193, 77,
              41, 76, 16, 229, 192, 154, 17, 4, 92, 166, 11 >>],
      [signer |-> 3, msg |-> << 104, 101, 108, 108, 111, 32, 119, 111,
                                 114, 108, 100 >>,
       sig |->
           << 68, 48, 254, 109, 145, 34, 148, 24, 210, 230, 42, 208, 30,
              225, 99, 83, 23, 102, 111, 84, 130, 67, 111, 97, 137, 65,
              183, 128, 104, 228, 134, 117, 220, 127, 51, 252, 3, 69, 53,
              235, 64, 3, 11, 76, 165, 196, 138, 139, 121, 6, 56, 241, 251,
              214, 212, 137, 8, 57, 226, 35, 243, 245, 48, 2 >>],
      [signer |-> 4, msg |-> << >>,
       sig |->
           << 158, 180, 47, 96, 6, 176, 74, 71, 146, 123, 40, 10, 154, 58,
              68, 250, 53, 100, 82, 249, 66, 183, 199, 116, 224, 242, 96,
              219, 243, 100, 92, 194, 219, 125, 252, 172, 200, 13, 47, 225,
              34, 85, 148, 229, 72, 67, 212, 189, 89, 254, 12, 75, 12, 177,
              179, 162, 201, 240, 124, 215, 174, 42, 57, 10 >>],
      [signer |-> 4, msg |-> << 104 >>,
       sig |->
           << 18, 210, 49, 91, 127, 175, 69, 63, 2, 92, 1, 207, 110, 35,
              123, 168, 238, 34, 123, 185, 138, 16, 94, 77, 50, 29, 179,
              112, 59, 72, 187, 160, 228, 51, 122, 232, 203, 52, 42, 142,
              62, 47, 240, 85, 68, 68, 157, 79, 67, 160, 75, 140, 215, 199,
              167, 56, 122, 76, 82, 32, 151, 208, 21, 4 >>],
      [signer |-> 4, msg |-> << 104, 101 >>,
       sig |->
           << 212, 81, 180, 121, 100, 120, 53, 123, 195, 213, 164, 95, 33,
              83, 203, 68, 148, 216, 42, 6, 148, 41, 123, 10, 139, 214,
              159, 179, 185, 76, 66, 63, 83, 245, 242, 46, 100, 6, 224, 33,
              23, 231, 14, 15, 218, 69, 187, 187, 134, 112, 126, 120, 1,
              59, 96, 213, 99, 135, 216, 36, 204, 132, 152, 11 >>],
      [signer |-> 4, msg |-> << 104, 101, 108 >>,
       sig |->
           << 20, 38, 249, 1, 162, 219, 166, 229, 170, 228, 204, 93, 131,
              121, 234, 202, 21, 112, 207, 255, 83, 61, 207, 241, 218, 190,
              174, 117, 233, 249, 244, 234, 89, 168, 242, 235, 203, 153,
              44, 92, 115, 50, 37, 69, 64, 9, 21, 62, 189, 1, 61, 235, 214,
              231, 61, 190, 250, 39, 199, 255, 56, 176, 79, 10 >>],
      [signer |-> 4, msg |-> << 104, 101, 108, 108 >>,
       sig |->
           << 143, 135, 86, 162, 210, 99, 64, 202, 36, 212, 251, 88, 210,
              88, 17, 167, 188, 84, 61, 66, 33, 218, 67, 98, 183, 208, 194,
              136, 185, 219, 158, 54, 2, 208, 94, 49, 149, 185, 218, 25,
              134, 95, 132, 243, 41, 212, 102, 31, 254, 216, 153, 84, 236,
              91, 75, 139, 253, 174, 122, 185, 247, 234, 1, 6 >>],
      [signer |-> 4, msg |-> << 104, 101, 108, 108, 111, 32, 119, 111,
                                 114, 108, 100 >>,
       sig |->
           << 137, 130, 153, 217, 44, 175, 40, 84, 191, 173, 177, 207, 51,
              219, 31, 75, 55, 56, 186, 157, 194, 245, 166, 107, 85, 185,
              243, 114, 17, 209, 1, 179, 175, 161, 229, 161, 228, 200, 124,
              16, 109, 209, 54, 81, 59, 41, 221, 32, 33, 117, 168, 159, 35,
              246, 24, 240, 251, 33, 169, 217, 61, 11, 224, 3 >>],
      [signer |-> 5, msg |-> << >>,
       sig |->
           << 253, 74, 71, 31, 18, 125, 223, 24, 15, 31, 130, 174, 59, 213,
              175, 165, 36, 12, 177, 42, 214, 203, 61, 119, 76, 244, 221,
              210, 206, 234, 14, 89, 114, 158, 106, 163, 123, 231, 150, 93,
              193, 89, 42, 2, 50, 234, 98, 196, 222, 5, 86, 205, 63, 138,
              101, 86, 245, 238, 152, 4, 116, 152, 215, 5 >>],
      [signer |-> 5, msg |-> << 104 >>,
       sig |->
           << 28, 190, 134, 133, 252, 0, 81, 210, 80, 204, 196, 194, 69,
              53, 191, 181, 1, 213, 172, 45, 225, 49, 106, 251, 223, 0,
              177, 226, 90, 232, 209, 14, 84, 149, 2, 149, 40, 152, 56,
              236, 12, 214, 170, 146, 163, 167, 241, 220, 182, 138, 198,
              180, 78, 195, 182, 36, 187, 185, 1, 206, 150, 48, 130, 4 >>],
      [signer |-> 5, msg |-> << 104, 101 >>,
       sig |->
           << 53, 53, 117, 107, 179, 120, 6, 195, 68, 92, 177, 103, 117,
              64, 96, 152, 44, 128, 30, 126, 88, 143, 51, 200, 171, 205,
              48, 156, 93, 105, 0, 2, 118, 64, 13, 18, 3, 114, 144, 230,
              139, 254, 81, 201, 202, 187, 178, 217, 93, 110, 255, 224,
              230, 143, 128, 176, 55, 254, 127, 55, 82, 192, 119, 9 >>],
      [signer |-> 5, msg |-> << 104, 101, 108 >>,
       sig |->
           << 199, 12, 123, 74, 60, 48, 132, 27, 140, 92, 150, 26, 239,
              189, 172, 245, 1, 48, 138, 97, 183, 14, 40, 179, 42, 238,
              218, 133, 179, 79, 247, 187, 162, 21, 116, 24, 211, 193, 153,
              7, 71, 208, 198, 253, 104, 103, 122, 1, 72, 101, 211, 80, 54,
              225, 226, 84, 73, 32, 149, 223, 246, 193, 170, 5 >>],
      [signer |-> 5, msg |-> << 104, 101, 108, 108 >>,
       sig |->
           << 82, 167, 39, 225, 123, 34, 105, 42, 145, 174, 95, 126, 129,
              147, 64, 39, 193, 135, 98, 117, 152, 111, 240, 97, 20, 147,
              62, 140, 54, 31, 191, 96, 4, 165, 53, 166, 65, 175, 166, 244,
              180, 6, 22, 110, 132, 83, 104, 171, 127, 71, 230, 108, 196,
              27, 118, 95, 123, 248, 248, 71, 252, 66, 166, 14 >>],
      [signer |-> 5, msg |-> << 104, 101, 108, 108, 111, 32, 119, 111,
                                 114, 108, 100 >>,
       sig |->
           << 129, 242, 132, 147, 216, 86, 20, 241, 188, 163, 100, 198,
              212, 88, 180, 76, 89, 238, 173, 3, 205, 86, 160, 155, 4, 242,
              88, 30, 207, 3, 70, 239, 152, 191, 76, 56, 189, 19, 184, 113,
              37, 66, 86, 202, 203, 56, 52, 210, 160, 120, 240, 196, 225,
              11, 146, 240, 210, 213, 110, 146, 217, 107, 203, 5 >>]
    }

KnownPoints ==
    {
      [bytes |->
           << 255, 255, 255, 255, 255, 255, 255, 255, 255, 255, 255, 255,
              255, 255, 255, 255, 255, 255, 255, 255, 255, 255, 255, 255,
              255, 255, 255, 255, 255, 255, 255, 255 >>,
       valid |-> TRUE],
      [bytes |->
           << 2, 0, 0, 0, 0, 0, 0, 0, 0, 0, 0, 0, 0, 0, 0, 0, 0, 0, 0, 0,
              0, 0, 0, 0, 0, 0, 0, 0, 0, 0, 0, 0 >>,
       valid |-> FALSE],
      [bytes |->
           << 98, 51, 36, 70, 103, 56, 33, 67, 100, 53, 94, 72, 97, 50, 35,
              69, 102, 55, 42, 66, 99, 52, 37, 71, 104, 49, 64, 68, 101,
              54, 38, 65 >>,
       valid |-> FALSE],
      [bytes |->
           << 99, 53, 38, 66, 100, 54, 42, 67, 101, 55, 33, 68, 102, 56,
              64, 69, 103, 49, 35, 70, 104, 50, 36, 71, 97, 51, 37, 72, 98,
              52, 94, 65 >>,
       valid |-> FALSE],
      [bytes |->
           << 100, 55, 64, 70, 97, 52, 38, 67, 102, 49, 36, 72, 99, 54, 33,
              69, 104, 51, 94, 66, 101, 56, 35, 71, 98, 53, 42, 68, 103,
              50, 37, 65 >>,
       valid |-> FALSE],
      [bytes |->
           << 101, 49, 37, 66, 102, 50, 94, 67, 103, 51, 38, 68, 104, 52,
              42, 69, 97, 53, 33, 70, 98, 54, 64, 71, 99, 55, 35, 72, 100,
              56, 36, 65 >>,
       valid |-> FALSE],
      [bytes |->
           << 60, 67, 74, 81, 88, 95, 102, 109, 116, 123, 130, 137, 144,
              151, 158, 165, 172, 179, 186, 193, 200, 207, 214, 221, 228,
              235, 242, 249, 0, 7, 14, 21 >>,
       valid |-> FALSE],
      [bytes |->
           << 113, 120, 127, 134, 141, 148, 155, 162, 169, 176, 183, 190,
              197, 204, 211, 218, 225, 232, 239, 246, 253, 4, 11, 18, 25,
              32, 39, 46, 53, 60, 67, 74 >>,
       valid |-> FALSE],
      [bytes |->
           << 166, 173, 180, 187, 194, 201, 208, 215, 222, 229, 236, 243,
              250, 1, 8, 15, 22, 29, 36, 43, 50, 57, 64, 71, 78, 85, 92,
              99, 106, 113, 120, 127 >>,
       valid |-> FALSE],
      [bytes |->
           << 219, 226, 233, 240, 247, 254, 5, 12, 19, 26, 33, 40, 47, 54,
              61, 68, 75, 82, 89, 96, 103, 110, 117, 124, 131, 138, 145,
              152, 159, 166, 173, 180 >>,
       valid |-> TRUE]
    }

\* SigningKey::verifying_key().to_bytes()
verifying_key(seed) ==
    Ed25519Keys[CHOOSE k \in 1..Len(Ed25519Keys) :
                    Ed25519Keys[k].seed = seed].public

\* VerifyingKey::from_bytes: fails on bytes that hold no curve point
VerifyingKey_from_bytes(b) ==
    IF \E k \in 1..Len(Ed25519Keys) : Ed25519Keys[k].public = b THEN Ok(b)
    ELSE IF (CHOOSE e \in KnownPoints : e.bytes = b).valid THEN Ok(b)
    ELSE Err("signature")

\* SigningKey::sign(&buf).to_bytes(): 64 bytes, R then S
SigningKey_sign(seed, msg) ==
    (CHOOSE e \in Ed25519Signatures :
        Ed25519Keys[e.signer].seed = seed /\ e.msg = msg).sig

\* VerifyingKey::verify(&buf, &signature).is_ok(), for a 64 byte signature
VerifyingKey_verify_is_ok(a32, msg, sig) ==
    \E e \in Ed25519Signatures :
        e.sig = sig /\ e.msg = msg /\ Ed25519Keys[e.signer].public = a32

(***************************************************************************)
(* Files and readers.  A path holds nothing, a directory or a file.         *)
(***************************************************************************)
NoFile == [kind |-> "none", bytes |-> <<>>]
Dir == [kind |-> "dir", bytes |-> <<>>]
File(b) == [kind |-> "file", bytes |-> b]

\* fs::read(path)
fs_read(f) == IF f.kind = "file" THEN Ok(f.bytes) ELSE Err("io")

\* fs::write(path, bytes) where the path holds f: a file is created or
\* replaced, a directory cannot be written
fs_write(f, b) == IF f.kind = "dir" THEN Err("io") ELSE Ok(File(b))

\* File::open(path): a directory opens, a missing path does not
File_open(f) == IF f.kind = "none" THEN Err("io") ELSE Ok(f)

\* Read::read_to_end on an opened file
read_to_end(f) == IF f.kind = "file" THEN Ok(f.bytes) ELSE Err("io")

(***************************************************************************)
(* src/process/text.rs: constructors, loaders, sign, verify, generate.      *)
(***************************************************************************)
\* Blake3::try_new with the slice taken at another place: the last 32
\* bytes instead of the first
Blake3_try_new_tail(key) ==
    IF Len(key) < KEY_LEN THEN Panic("range end index 32 out of range")
    ELSE Ok(SubSeq(key, Len(key) - KEY_LEN + 1, Len(key)))

\* Blake3::try_new: &key[..32] panics on a slice shorter than 32; the
\* conversion of the 32 byte slice to [u8; 32] cannot fail
Blake3_try_new(key) ==
    IF Len(key) < KEY_LEN THEN Panic("range end index 32 out of range")
    ELSE Ok(SubSeq(key, 1, KEY_LEN))

\* <Blake3 as KeyLoader>::load
Blake3_load(f) ==
    IF IsErr(fs_read(f)) THEN fs_read(f) ELSE Blake3_try_new(fs_read(f).val)

\* Ed25519Signer::try_new: key.try_into()? needs exactly 32 bytes
Ed25519Signer_try_new(key) ==
    IF Len(key) # KEY_LEN THEN Err("TryFromSlice") ELSE Ok(key)

\* <Ed25519Signer as KeyLoader>::load
Ed25519Signer_load(f) ==
    IF IsErr(fs_read(f)) THEN fs_read(f)
    ELSE Ed25519Signer_try_new(fs_read(f).val)

\* Ed25519Verifier::try_new: key.try_into()? then VerifyingKey::from_bytes(..)?
Ed25519Verifier_try_new(key) ==
    IF Len(key) # KEY_LEN THEN Err("TryFromSlice")
    ELSE VerifyingKey_from_bytes(key)

\* <Ed25519Verifier as KeyLoader>::load
Ed25519Verifier_load(f) ==
    IF IsErr(fs_read(f)) THEN fs_read(f)
    ELSE Ed25519Verifier_try_new(fs_read(f).val)

\* <Blake3 as TextSign>::sign; rd is the outcome of reader.read_to_end
Blake3_sign(key, rd) ==
    IF IsErr(rd) THEN rd ELSE Ok(keyed_hash(key, rd.val))

\* <Ed25519Signer as TextSign>::sign
Ed25519Signer_sign(key, rd) ==
    IF IsErr(rd) THEN rd ELSE Ok(SigningKey_sign(key, rd.val))

\* Blake3 verify reporting a mismatch as an error
Blake3_verify_bail(key, rd, sig) ==
    IF IsErr(rd) THEN rd
    ELSE IF keyed_hash(key, rd.val) = sig THEN Ok(TRUE)
    ELSE Err("mismatch")

\* <Blake3 as TextVerify>::verify: hash == sig compares the 32 byte digest
\* with a slice of any length
Blake3_verify(key, rd, sig) ==
    IF IsErr(rd) THEN rd ELSE Ok(keyed_hash(key, rd.val) = sig)

\* Ed25519 verify propagating the library's error with ? instead of is_ok()
Ed25519Verifier_verify_propagate(key, rd, sig) ==
    IF IsErr(rd) THEN rd
    ELSE IF Len(sig) # 2 * KEY_LEN THEN Err("TryFromSlice")
    ELSE IF VerifyingKey_verify_is_ok(key, rd.val, sig) THEN Ok(TRUE)
    ELSE Err("signature")

\* <Ed25519Verifier as TextVerify>::verify: the stream is read first, then
\* sig.try_into()? needs exactly 64 bytes, then is_ok() of the library check
Ed25519Verifier_verify(key, rd, sig) ==
    IF IsErr(rd) THEN rd
    ELSE IF Len(sig) # 2 * KEY_LEN THEN Err("TryFromSlice")
    ELSE Ok(VerifyingKey_verify_is_ok(key, rd.val, sig))

\* Blake3 generate asking process_genpass for half the length
Blake3_generate_short(pw) == Ok(<< SubSeq(pw, 1, KEY_LEN \div 2) >>)

\* <Blake3 as KeyGenerator>::generate; pw is what process_genpass returned
Blake3_generate(pw) == Ok(<< pw >>)

\* Ed25519 generate returning the secret bytes in both places
Ed25519Signer_generate_twice(seed) == Ok(<< seed, seed >>)

\* <Ed25519Signer as KeyGenerator>::generate; seed is what OsRng gave
Ed25519Signer_generate(seed) == Ok(<< seed, verifying_key(seed) >>)

(***************************************************************************)
(* Bounds and the inputs drawn from them.                                   *)
(***************************************************************************)
\* messages are the prefixes of "hello world" up to this length, and the
\* whole of it
MaxMsgLen == 2
\* how many different outcomes each random source has
NumDraws == 2

HelloWorld == << 104, 101, 108, 108, 111, 32, 119, 111, 114, 108, 100 >>

Msgs ==
    { SubSeq(HelloWorld, 1, Min(n, Len(HelloWorld))) : n \in 0..MaxMsgLen }
        \cup { HelloWorld }

\* what OsRng hands SigningKey::generate: 32 bytes
Seed(k) == [i \in 1..KEY_LEN |-> (k * 53 + i * 7) % 256]
Seeds == { Seed(k) : k \in 1..NumDraws }

\* process_genpass(32, true, true, true, true): a string of `length`
\* ASCII characters with upper case, lower case, digits and symbols, so as
\* many bytes as characters
Upper == << 65, 66, 67, 68, 69, 70, 71, 72 >>
Lower == << 97, 98, 99, 100, 101, 102, 103, 104 >>
Digit == << 49, 50, 51, 52, 53, 54, 55, 56 >>
Symbol == << 33, 64, 35, 36, 37, 94, 38, 42 >>
Password(length, k) ==
    [i \in 1..length |->
        LET j == ((i * k + i \div 4) % 8) + 1
        IN  CASE i % 4 = 0 -> Upper[j]
              [] i % 4 = 1 -> Lower[j]
              [] i % 4 = 2 -> Digit[j]
              [] OTHER -> Symbol[j]]
process_genpass(length) == { Password(length, k) : k \in 1..NumDraws }

\* key files found on disk before any command runs: earlier outputs of the
\* generate command, as written or edited (a trailing newline, a lost last
\* byte, an empty file); 32 bytes that hold no curve point; 32 bytes that
\* hold a curve point which is the public key of none of the seeds
Chop(b) == SubSeq(b, 1, Len(b) - 1)
NoPoint == << 2 >> \o Zeros(KEY_LEN - 1)
StrayPoint == [i \in 1..KEY_LEN |-> 255]
SymFixtures ==
    LET pws == process_genpass(KEY_LEN)
    IN  pws \cup { <<>>, Chop(Password(KEY_LEN, 1)),
                   Password(KEY_LEN, 1) \o << 10 >> }
SkFixtures == Seeds \cup { Chop(Seed(1)), Seed(1) \o << 10 >> }
PkFixtures ==
    { verifying_key(s) : s \in Seeds }
        \cup { NoPoint, StrayPoint, Chop(verifying_key(Seed(1))) }
OtherKeys ==
    { Password(KEY_LEN, 1) \o << 13, 10 >>, verifying_key(Seed(NumDraws)) }

\* what a key path can hold before the command runs: a file or a directory
Entries(contents) == { File(b) : b \in contents } \cup { Dir }

Formats == { "blake3", "ed25519" }
Paths ==
    { "blake3.txt", "ed25519.sk", "ed25519.pk", "other.key", "msg.txt" }

\* the fixed signature size of a scheme
SigLen(fmt) == IF fmt = "blake3" THEN KEY_LEN ELSE 2 * KEY_LEN

(***************************************************************************)
(* State.                                                                   *)
(***************************************************************************)
VARIABLES
    fs,        \* the file system: what each path holds
    pc,        \* where the run is
    format,    \* the algorithm tag of the run
    drawn,     \* what the random source gave the generator
    keybufs,   \* what process_text_generate returned
    genout,    \* what the generate command returned
    signer,    \* the outcome of the signer's load
    verifier,  \* the outcome of the verifier's load
    vpath,     \* the path the verifier was loaded from
    data,      \* the message
    sig,       \* the signature bytes
    tamper,    \* what was done to the signature after signing
    verdict,   \* the outcome of verify, or of process_text_verify
    signed,    \* the outcome of process_text_sign
    args,      \* the arguments of process_text_sign / process_text_verify
    reader,    \* the outcome of get_reader
    decoded,   \* the outcome of decoding the signature text
    consumed   \* bytes of the input stream read so far

vars == << fs, pc, format, drawn, keybufs, genout, signer, verifier, vpath,
           data, sig, tamper, verdict, signed, args, reader, decoded,
           consumed >>

NoTamper == [kind |-> "none", bit |-> 0]

\* the path the generate command writes the secret to, and the one a
\* verifier is normally given
SecretPath(fmt) == IF fmt = "blake3" THEN "blake3.txt" ELSE "ed25519.sk"
PublicPath(fmt) == IF fmt = "blake3" THEN "blake3.txt" ELSE "ed25519.pk"

\* KeyLoader::load of the signer and of the verifier of a scheme
LoadSignerOf(fmt, f) ==
    IF fmt = "blake3" THEN Blake3_load(f) ELSE Ed25519Signer_load(f)
LoadVerifierOf(fmt, f) ==
    IF fmt = "blake3" THEN Blake3_load(f) ELSE Ed25519Verifier_load(f)
SignOf(fmt, key, rd) ==
    IF fmt = "blake3" THEN Blake3_sign(key, rd) ELSE Ed25519Signer_sign(key, rd)
VerifyOf(fmt, key, rd, s) ==
    IF fmt = "blake3" THEN Blake3_verify(key, rd, s)
    ELSE Ed25519Verifier_verify(key, rd, s)

(***************************************************************************)
(* Spec: the generate command, then the capabilities used as the crate's    *)
(* tests use them, on key files that were found on disk or written by the   *)
(* command.                                                                 *)
(***************************************************************************)
Init ==
    /\ fs \in { [p \in Paths |-> IF p = "other.key" THEN File(k) ELSE NoFile] :
                    k \in OtherKeys }
    /\ pc = "setup"
    /\ format = "blake3"
    /\ drawn = None
    /\ keybufs = None
    /\ genout = None
    /\ signer = None
    /\ verifier = None
    /\ vpath = "none"
    /\ data = <<>>
    /\ sig = <<>>
    /\ tamper = NoTamper
    /\ verdict = None
    /\ signed = None
    /\ args = None
    /\ reader = None
    /\ decoded = None
    /\ consumed = 0

\* the key paths of one scheme are already taken
Provide ==
    /\ pc = "setup"
    /\ \/ /\ format' = "blake3"
          /\ \E e \in Entries(SymFixtures) :
                fs' = [fs EXCEPT !["blake3.txt"] = e]
       \/ /\ format' = "ed25519"
          /\ \E sk \in Entries(SkFixtures), pk \in Entries(PkFixtures) :
                fs' = [fs EXCEPT !["ed25519.sk"] = sk, !["ed25519.pk"] = pk]
    /\ pc' = "provided"
    /\ UNCHANGED << drawn, keybufs, genout, signer, verifier, vpath, data, sig,
                    tamper, verdict, signed, args, reader, decoded, consumed >>

\* the generate command writing the buffers with their second and first
\* swapped
GenerateWrites_swapped(files, fmt, key) ==
    IF fmt = "blake3"
    THEN LET w == fs_write(files["blake3.txt"], key[1])
         IN  IF IsErr(w) THEN [fs |-> files, result |-> w]
             ELSE [fs |-> [files EXCEPT !["blake3.txt"] = w.val],
                   result |-> Ok(<<>>)]
    ELSE LET w1 == fs_write(files["ed25519.sk"], key[2])
             w2 == fs_write(files["ed25519.pk"], key[1])
         IN  IF IsErr(w1) THEN [fs |-> files, result |-> w1]
             ELSE IF IsErr(w2)
             THEN [fs |-> [files EXCEPT !["ed25519.sk"] = w1.val],
                   result |-> w2]
             ELSE [fs |-> [files EXCEPT !["ed25519.sk"] = w1.val,
                                        !["ed25519.pk"] = w2.val],
                   result |-> Ok(<<>>)]

\* TextKeyGenerateOpts::execute after process_text_generate returned key:
\* fs::write(blake3.txt, &key[0])?, or fs::write(ed25519.sk, &key[0])? and
\* then fs::write(ed25519.pk, &key[1])?; a write that fails ends the
\* command, what was written before it stays
GenerateWrites(files, fmt, key) ==
    IF fmt = "blake3"
    THEN LET w == fs_write(files["blake3.txt"], key[1])
         IN  IF IsErr(w) THEN [fs |-> files, result |-> w]
             ELSE [fs |-> [files EXCEPT !["blake3.txt"] = w.val],
                   result |-> Ok(<<>>)]
    ELSE LET w1 == fs_write(files["ed25519.sk"], key[1])
             w2 == fs_write(files["ed25519.pk"], key[2])
         IN  IF IsErr(w1) THEN [fs |-> files, result |-> w1]
             ELSE IF IsErr(w2)
             THEN [fs |-> [files EXCEPT !["ed25519.sk"] = w1.val],
                   result |-> w2]
             ELSE [fs |-> [files EXCEPT !["ed25519.sk"] = w1.val,
                                        !["ed25519.pk"] = w2.val],
                   result |-> Ok(<<>>)]

\* process_text_generate: dispatch on the tag; d is the random draw
process_text_generate(fmt, d) ==
    IF fmt = "blake3" THEN Blake3_generate(d) ELSE Ed25519Signer_generate(d)

\* rcli text generate --format fmt, into an empty directory or over the
\* entries of the same scheme
GenerateCmd ==
    /\ pc \in { "setup", "provided" }
    /\ \E fmt \in Formats :
         \E d \in (IF fmt = "blake3" THEN process_genpass(KEY_LEN) ELSE Seeds) :
            LET key == process_text_generate(fmt, d)
                w == GenerateWrites(fs, fmt, key.val)
            IN  /\ pc = "provided" => fmt = format
                /\ format' = fmt
                /\ drawn' = Ok(d)
                /\ keybufs' = key
                /\ fs' = w.fs
                /\ genout' = w.result
    /\ pc' = "ready"
    /\ UNCHANGED << signer, verifier, vpath, data, sig, tamper, verdict, signed,
                    args, reader, decoded, consumed >>

\* Blake3::load or Ed25519Signer::load of the scheme's secret file
LoadSigner ==
    /\ pc \in { "provided", "ready" }
    /\ signer' = LoadSignerOf(format, fs[SecretPath(format)])
    /\ pc' = "signer"
    /\ UNCHANGED << fs, format, drawn, keybufs, genout, verifier, vpath, data,
                    sig, tamper, verdict, signed, args, reader, decoded,
                    consumed >>

\* Blake3::load or Ed25519Verifier::load, of the scheme's own file or of
\* another key file; it runs only when the signer's load returned Ok (the
\* ? on that load returns otherwise)
LoadVerifier ==
    /\ pc = "signer"
    /\ IsOk(signer)
    /\ \E p \in { PublicPath(format), "other.key" } :
         /\ vpath' = p
         /\ verifier' = LoadVerifierOf(format, fs[p])
    /\ pc' = "loaded"
    /\ UNCHANGED << fs, format, drawn, keybufs, genout, signer, data, sig,
                    tamper, verdict, signed, args, reader, decoded, consumed >>

\* signer.sign(&mut &data[..]): a reader over a slice never fails; it runs
\* only when the verifier's load returned Ok
Sign ==
    /\ pc = "loaded"
    /\ IsOk(verifier)
    /\ \E m \in Msgs :
         /\ data' = m
         /\ sig' = SignOf(format, signer.val, Ok(m)).val
    /\ pc' = "signed"
    /\ UNCHANGED << fs, format, drawn, keybufs, genout, signer, verifier, vpath,
                    tamper, verdict, signed, args, reader, decoded, consumed >>

\* the signature is damaged on its way to the verifier: one bit inverted, or
\* its length changed
Tamper ==
    /\ pc = "signed"
    /\ \/ \E n \in 0..(8 * Len(sig) - 1) :
            /\ sig' = FlipBit(sig, n)
            /\ tamper' = [kind |-> "flip", bit |-> n]
       \/ /\ sig' = Chop(sig)
          /\ tamper' = [kind |-> "chop", bit |-> 0]
       \/ /\ sig' = sig \o << 0 >>
          /\ tamper' = [kind |-> "extend", bit |-> 0]
       \/ /\ sig' = IF format = "blake3" THEN sig \o Zeros(KEY_LEN)
                    ELSE SubSeq(sig, 1, KEY_LEN)
          /\ tamper' = [kind |-> "resize", bit |-> 0]
       \/ /\ sig' = <<>>
          /\ tamper' = [kind |-> "empty", bit |-> 0]
    /\ pc' = "tampered"
    /\ UNCHANGED << fs, format, drawn, keybufs, genout, signer, verifier, vpath,
                    data, verdict, signed, args, reader, decoded, consumed >>

\* verifier.verify(&mut &data[..], &sig)
Verify ==
    /\ pc \in { "signed", "tampered" }
    /\ verdict' = VerifyOf(format, verifier.val, Ok(data), sig)
    /\ pc' = "done"
    /\ UNCHANGED << fs, format, drawn, keybufs, genout, signer, verifier, vpath,
                    data, sig, tamper, signed, args, reader, decoded,
                    consumed >>

Next ==
    \/ Provide
    \/ GenerateCmd
    \/ LoadSigner
    \/ LoadVerifier
    \/ Sign
    \/ Tamper
    \/ Verify

Spec == Init /\ [][Next]_vars

(***************************************************************************)
(* SpecProcess: process_text_sign and process_text_verify, one action per   *)
(* statement of their bodies, on an input source, a key path and, for       *)
(* verify, a signature text.                                                *)
(***************************************************************************)
\* how many white space characters may surround a signature text
MaxPad == 1

StdinData == HelloWorld

\* what a path holds; a path the model has no file for holds nothing
At(p) == IF p \in Paths THEN fs[p] ELSE NoFile

\* get_reader: "-" is standard input, anything else is opened as a file
get_reader(input) ==
    IF input = "-" THEN Ok(File(StdinData)) ELSE File_open(At(input))

\* process_text_verify decoding the text as given, without trim()
SigText_untrimmed(t) == t

\* sig.trim(), the text handed to URL_SAFE_NO_PAD.decode
SigText(t) == trim(t)

\* process_text_verify loading the key before it decodes the signature
VerifyOrder_load_first == << "open", "load", "decode", "verify" >>

\* the statements of process_text_verify in program order: get_reader(input)?,
\* URL_SAFE_NO_PAD.decode(sig.trim())?, <the scheme>::load(key)?,
\* verifier.verify(&mut reader, &signature)?
VerifyOrder == << "open", "decode", "load", "verify" >>

\* the statement after st, or the return
StageAfter(st) ==
    LET i == CHOOSE k \in 1..Len(VerifyOrder) : VerifyOrder[k] = st
    IN  IF i = Len(VerifyOrder) THEN "returned" ELSE VerifyOrder[i + 1]

\* signature texts: the printed signatures of "hello world" under the first
\* generated keys, whole or damaged, between runs of white space
GoodTexts ==
    { b64_encode(keyed_hash(Password(KEY_LEN, 1), HelloWorld)),
      b64_encode(SigningKey_sign(Seed(1), HelloWorld)) }
CoreTexts ==
    UNION { { t,
              [t EXCEPT ![1] = 42],
              [t EXCEPT ![2] = IF t[2] = 65 THEN 66 ELSE 65],
              t \o << 61 >>,
              SubSeq(t, 1, 3) \o << 32 >> \o SubSeq(t, 4, Len(t)),
              Chop(t),
              SubSeq(t, 1, 4) } : t \in GoodTexts }
        \cup { <<>>, << 65 >> }
Pads == { [i \in 1..n |-> c] : n \in 0..MaxPad, c \in { 32, 10 } }
SigTexts == { l \o t \o r : l \in Pads, t \in CoreTexts, r \in Pads }

Inputs == { "-", "msg.txt", "absent.txt" }
SignKeyArgs == { "blake3.txt", "ed25519.sk", "absent.key" }
VerifyKeyArgs == { "blake3.txt", "ed25519.pk", "absent.key" }

InitProcess ==
    /\ \E m \in { NoFile, Dir, File(HelloWorld) },
          k \in { Password(KEY_LEN, 1), Chop(Password(KEY_LEN, 1)),
                  Password(KEY_LEN, 2) \o << 10 >> },
          a \in { verifying_key(Seed(1)), NoPoint } :
         fs = [p \in Paths |->
                 CASE p = "msg.txt" -> m
                   [] p = "blake3.txt" -> File(k)
                   [] p = "ed25519.sk" -> File(Seed(1))
                   [] p = "ed25519.pk" -> File(a)
                   [] OTHER -> NoFile]
    /\ pc = "idle"
    /\ format = "blake3"
    /\ drawn = None
    /\ keybufs = None
    /\ genout = None
    /\ signer = None
    /\ verifier = None
    /\ vpath = "none"
    /\ data = <<>>
    /\ sig = <<>>
    /\ tamper = NoTamper
    /\ verdict = None
    /\ signed = None
    /\ args = None
    /\ reader = None
    /\ decoded = None
    /\ consumed = 0

\* the call process_text_sign(input, key, format)
StartSign ==
    /\ pc = "idle"
    /\ \E i \in Inputs, k \in SignKeyArgs, f \in Formats :
         /\ args' = [tag |-> "Sign", input |-> i, key |-> k, sig |-> <<>>]
         /\ format' = f
    /\ pc' = "sign_open"
    /\ UNCHANGED << fs, drawn, keybufs, genout, signer, verifier, vpath, data,
                    sig, tamper, verdict, signed, reader, decoded, consumed >>

\* let mut reader = get_reader(input)?;
SOpen ==
    /\ pc = "sign_open"
    /\ reader' = get_reader(args.input)
    /\ IF IsOk(get_reader(args.input))
       THEN pc' = "sign_load" /\ UNCHANGED signed
       ELSE pc' = "returned" /\ signed' = get_reader(args.input)
    /\ UNCHANGED << fs, format, drawn, keybufs, genout, signer, verifier, vpath,
                    data, sig, tamper, verdict, args, decoded, consumed >>

\* let signer = Blake3::load(key)?;  or  Ed25519Signer::load(key)?;
SLoad ==
    /\ pc = "sign_load"
    /\ signer' = LoadSignerOf(format, At(args.key))
    /\ IF IsOk(LoadSignerOf(format, At(args.key)))
       THEN pc' = "sign_sign" /\ UNCHANGED signed
       ELSE pc' = "returned" /\ signed' = LoadSignerOf(format, At(args.key))
    /\ UNCHANGED << fs, format, drawn, keybufs, genout, verifier, vpath, data,
                    sig, tamper, verdict, args, reader, decoded, consumed >>

\* signer.sign(&mut reader)?  then  URL_SAFE_NO_PAD.encode(signature)  and
\* Ok(signed): the stream is read to its end and signed, the signature is
\* printed as text
SSign ==
    /\ pc = "sign_sign"
    /\ LET rd == read_to_end(reader.val)
           s == SignOf(format, signer.val, rd)
       IN  /\ consumed' = IF IsOk(rd) THEN Len(rd.val) ELSE 0
           /\ data' = IF IsOk(rd) THEN rd.val ELSE <<>>
           /\ sig' = IF IsOk(s) THEN s.val ELSE <<>>
           /\ signed' = IF IsOk(s) THEN Ok(b64_encode(s.val)) ELSE s
    /\ pc' = "returned"
    /\ UNCHANGED << fs, format, drawn, keybufs, genout, signer, verifier, vpath,
                    tamper, verdict, args, reader, decoded >>

\* the call process_text_verify(input, key, format, sig)
StartVerify ==
    /\ pc = "idle"
    /\ \E i \in Inputs, k \in VerifyKeyArgs, f \in Formats, t \in SigTexts :
         /\ args' = [tag |-> "Verify", input |-> i, key |-> k, sig |-> t]
         /\ format' = f
    /\ pc' = VerifyOrder[1]
    /\ UNCHANGED << fs, drawn, keybufs, genout, signer, verifier, vpath, data,
                    sig, tamper, verdict, signed, reader, decoded, consumed >>

\* a statement ending in ?: on Ok the next statement runs, otherwise the
\* function returns the error (or the panic unwinds)
Continue(st, r) ==
    IF IsOk(r)
    THEN pc' = StageAfter(st) /\ UNCHANGED verdict
    ELSE pc' = "returned" /\ verdict' = r

\* let mut reader = get_reader(input)?;
VOpen ==
    /\ pc = "open"
    /\ reader' = get_reader(args.input)
    /\ Continue("open", get_reader(args.input))
    /\ UNCHANGED << fs, format, drawn, keybufs, genout, signer, verifier, vpath,
                    data, sig, tamper, signed, args, decoded, consumed >>

\* let signature = URL_SAFE_NO_PAD.decode(sig.trim())?;
VDecode ==
    /\ pc = "decode"
    /\ decoded' = b64_decode(SigText(args.sig))
    /\ Continue("decode", b64_decode(SigText(args.sig)))
    /\ UNCHANGED << fs, format, drawn, keybufs, genout, signer, verifier, vpath,
                    data, sig, tamper, signed, args, reader, consumed >>

\* let verifier = Blake3::load(key)?;  or  Ed25519Verifier::load(key)?;
VLoad ==
    /\ pc = "load"
    /\ verifier' = LoadVerifierOf(format, At(args.key))
    /\ vpath' = args.key
    /\ Continue("load", LoadVerifierOf(format, At(args.key)))
    /\ UNCHANGED << fs, format, drawn, keybufs, genout, signer, data, sig,
                    tamper, signed, args, reader, decoded, consumed >>

\* verifier.verify(&mut reader, &signature)?  and  Ok(verified): the stream
\* is read to its end, then the signature is checked
VVerify ==
    /\ pc = "verify"
    /\ LET rd == read_to_end(reader.val)
       IN  /\ consumed' = IF IsOk(rd) THEN Len(rd.val) ELSE 0
           /\ data' = IF IsOk(rd) THEN rd.val ELSE <<>>
           /\ sig' = decoded.val
           /\ verdict' = VerifyOf(format, verifier.val, rd, decoded.val)
    /\ pc' = "returned"
    /\ UNCHANGED << fs, format, drawn, keybufs, genout, signer, verifier, vpath,
                    tamper, signed, args, reader, decoded >>

NextProcess ==
    \/ StartSign
    \/ SOpen
    \/ SLoad
    \/ SSign
    \/ StartVerify
    \/ VOpen
    \/ VDecode
    \/ VLoad
    \/ VVerify

SpecProcess == InitProcess /\ [][NextProcess]_vars

(***************************************************************************)
(* Properties.                                                              *)
(***************************************************************************)
Signed == pc \in { "signed", "tampered", "done" }

\* C1: a message signed under a symmetric key that Blake3::load accepted
\* (a key written by the generate command included) verifies as Ok(true)
\* under the same key; a key the command wrote is always accepted by the
\* loader.
C1_Blake3RoundTrip ==
    /\ (format = "blake3" /\ IsOk(genout) /\ signer # None) => IsOk(signer)
    /\ (pc = "done" /\ format = "blake3" /\ tamper = NoTamper
            /\ vpath = "blake3.txt")
        => verdict = Ok(TRUE)

C1_Witness ==
    /\ pc = "done" /\ format = "blake3" /\ IsOk(genout)
    /\ tamper = NoTamper /\ vpath = "blake3.txt"
    /\ data = HelloWorld /\ verdict = Ok(TRUE)

\* C2: for a key pair written by one run of the generate command, the
\* secret loads as a signer, the public key loads on its own as a verifier,
\* and a message signed with the one verifies as Ok(true) with the other.
C2_Ed25519RoundTrip ==
    (format = "ed25519" /\ IsOk(genout))
        => /\ signer # None => IsOk(signer)
           /\ vpath = "ed25519.pk"
                => /\ IsOk(verifier)
                   /\ (pc = "done" /\ tamper = NoTamper) => verdict = Ok(TRUE)

C2_Witness ==
    /\ pc = "done" /\ format = "ed25519" /\ IsOk(genout)
    /\ tamper = NoTamper /\ vpath = "ed25519.pk"
    /\ data = HelloWorld /\ verdict = Ok(TRUE)

\* C3 (as claimed): loading a symmetric key file shorter than 32 bytes ends
\* in an error result returned to the caller.
C3_ShortKeyIsError ==
    (format = "blake3" /\ signer # None /\ fs["blake3.txt"].kind = "file"
        /\ Len(fs["blake3.txt"].bytes) < KEY_LEN)
        => IsErr(signer)

\* C4 (as claimed): verify with a signature that has not the scheme's
\* fixed size returns an error, for both schemes.
C4_WrongLengthIsError ==
    (pc = "done" /\ Len(sig) # SigLen(format)) => IsErr(verdict)

\* C5: when the signature handed to verify is a valid signature of the
\* message under the loaded key with exactly one bit inverted, verify
\* returns Ok(false), for both schemes.
C5_BitFlipIsFalse ==
    (pc = "done" /\ tamper.kind = "flip"
        /\ VerifyOf(format, verifier.val, Ok(data), FlipBit(sig, tamper.bit))
            = Ok(TRUE))
        => verdict = Ok(FALSE)

C5_Witness ==
    /\ pc = "done" /\ tamper.kind = "flip" /\ format = "ed25519"
    /\ VerifyOf(format, verifier.val, Ok(data), FlipBit(sig, tamper.bit))
        = Ok(TRUE)
    /\ verdict = Ok(FALSE)

\* the verifier's key is not the one that belongs to the signer's: another
\* 32 byte secret, or a public key other than the signer's own
Unrelated ==
    IF format = "blake3" THEN signer.val # verifier.val
    ELSE verifier.val # verifying_key(signer.val)

\* C6: an untouched signature made with one key and verified against an
\* unrelated key gives Ok(false); both keys load, the mismatch is no error.
C6_UnrelatedKeyIsFalse ==
    (pc = "done" /\ tamper = NoTamper /\ Unrelated) => verdict = Ok(FALSE)

C6_Witness ==
    /\ pc = "done" /\ tamper = NoTamper /\ format = "ed25519" /\ Unrelated
    /\ vpath = "other.key" /\ verifier.val = verifying_key(Seed(NumDraws))
    /\ verdict = Ok(FALSE)

\* the file the generate command is to leave at each path it writes
Target(p) ==
    IF p = SecretPath(format') THEN File(keybufs'.val[1])
    ELSE File(keybufs'.val[2])

\* C7: whenever the generate command has run, process_text_generate gave
\* it one buffer of at least 32 bytes for blake3 and two for ed25519, the
\* secret first and its public key second; every path the command changed
\* is blake3.txt or ed25519.sk holding the first buffer or ed25519.pk
\* holding the second; and when the command returned Ok each of these
\* files holds its buffer.
C7_GenerateLayout ==
    [][pc' = "ready" =>
        LET targets == { SecretPath(format'), PublicPath(format') }
        IN  /\ IsOk(keybufs')
            /\ keybufs'.val[1] = drawn'.val
            /\ IF format' = "blake3"
               THEN Len(keybufs'.val) = 1 /\ Len(keybufs'.val[1]) >= KEY_LEN
               ELSE /\ Len(keybufs'.val) = 2
                    /\ keybufs'.val[2] = verifying_key(drawn'.val)
            /\ \A p \in Paths :
                 fs'[p] # fs[p] => (p \in targets /\ fs'[p] = Target(p))
            /\ IsOk(genout') => \A p \in targets : fs'[p] = Target(p)]_vars

C7_Witness ==
    /\ pc = "ready" /\ format = "ed25519" /\ IsOk(genout)
    /\ fs["ed25519.sk"] = File(drawn.val)
    /\ fs["ed25519.pk"] = File(verifying_key(drawn.val))

\* the signer's and the verifier's key files are both at least 32 bytes
\* long and agree on their first 32 bytes
SamePrefix ==
    LET ka == fs["blake3.txt"].bytes
        kb == fs[vpath].bytes
    IN  /\ Len(ka) >= KEY_LEN
        /\ Len(kb) >= KEY_LEN
        /\ SubSeq(ka, 1, KEY_LEN) = SubSeq(kb, 1, KEY_LEN)

\* C9: a symmetric key file of 32 bytes or more loads; two such files that
\* agree on their first 32 bytes give the same signature for the message,
\* and a signature made under the one verifies as Ok(true) under the other.
C9_OnlyFirst32Bytes ==
    format = "blake3" =>
        /\ (signer # None /\ Len(fs["blake3.txt"].bytes) >= KEY_LEN)
            => IsOk(signer)
        /\ (vpath # "none" /\ SamePrefix)
            => /\ IsOk(verifier)
               /\ (Signed /\ tamper = NoTamper)
                    => sig = Blake3_sign(verifier.val, Ok(data)).val
               /\ (pc = "done" /\ tamper = NoTamper) => verdict = Ok(TRUE)

C9_Witness ==
    /\ pc = "done" /\ format = "blake3" /\ vpath = "other.key" /\ SamePrefix
    /\ Len(fs["blake3.txt"].bytes) > KEY_LEN
    /\ fs["blake3.txt"].bytes # fs["other.key"].bytes
    /\ tamper = NoTamper /\ verdict = Ok(TRUE)

\* the signature text is l, then t, then r
Surrounds(l, t, r) ==
    /\ Len(args.sig) >= Len(l) + Len(r)
    /\ SubSeq(args.sig, 1, Len(l)) = l
    /\ SubSeq(args.sig, Len(args.sig) - Len(r) + 1, Len(args.sig)) = r
    /\ t = SubSeq(args.sig, Len(l) + 1, Len(args.sig) - Len(r))

\* C8: when the trimmed signature text is not valid URL-safe unpadded
\* base64 process_text_verify returns an error, the decoding error once the
\* input source is open, and never a verdict; a text that is valid between
\* runs of white space is decoded to the bytes of the text without them.
C8_BadTextIsError ==
    (pc = "returned" /\ args.tag = "Verify") =>
        /\ IsErr(b64_decode(trim(args.sig)))
            => /\ IsErr(verdict)
               /\ IsOk(reader) => verdict = Err("decode")
        /\ \A l \in Pads, r \in Pads :
             LET t == SubSeq(args.sig, Len(l) + 1, Len(args.sig) - Len(r))
             IN  (Surrounds(l, t, r) /\ IsOk(b64_decode(t)) /\ IsOk(reader))
                    => decoded = b64_decode(t)

C8_Witness ==
    /\ pc = "returned" /\ args.tag = "Verify"
    /\ Len(trim(args.sig)) < Len(args.sig)
    /\ is_whitespace(args.sig[1])
    /\ verdict = Ok(TRUE)

\* C10: process_text_verify opens the input, decodes the signature, loads
\* the key and only then reads the input: the outcome is that of the first
\* of these steps that fails, no later step runs, and no byte of the input
\* is read unless the decoding and the key load both succeeded.
C10_StepOrder ==
    args.tag = "Verify" =>
        /\ consumed > 0 => (IsOk(decoded) /\ IsOk(verifier))
        /\ pc = "returned" =>
            LET opened == get_reader(args.input)
                text == b64_decode(trim(args.sig))
                key == LoadVerifierOf(format, At(args.key))
            IN  /\ ~IsOk(opened)
                    => (verdict = opened /\ decoded = None /\ verifier = None)
                /\ (IsOk(opened) /\ ~IsOk(text))
                    => (verdict = text /\ verifier = None)
                /\ (IsOk(opened) /\ IsOk(text) /\ ~IsOk(key))
                    => (verdict = key /\ consumed = 0)

C10_Witness ==
    /\ pc = "returned" /\ args.tag = "Verify"
    /\ IsOk(reader)
    /\ IsErr(b64_decode(trim(args.sig)))
    /\ ~IsOk(LoadVerifierOf(format, At(args.key)))
    /\ verdict = Err("decode")
    /\ consumed = 0
====
